---------------------------- MODULE Spec2Model ----------------------------
(***************************************************************************)
(* A model of dataset/scrape.py: the weekly field-goal export              *)
(* (get_field_goal_data), the range driver (get_field_goal_data_between),  *)
(* the consolidation of the weekly files (merge_csvs), the directory       *)
(* utilities (purge_folder, validate_dir) and the entry point.             *)
(*                                                                         *)
(* The filesystem is a function from the paths that exist to nodes.  A     *)
(* path is a sequence of names relative to the working directory (<<>>),   *)
(* a name is the sequence of its ASCII codes, so that sorted() and         *)
(* glob('*.csv') are computed on the characters.  A file's content is the  *)
(* sequence of rows csv.reader yields for it (and csv.writer / to_csv      *)
(* wrote): a row is a sequence of cells, a cell is a string.               *)
(***************************************************************************)
EXTENDS Integers, Sequences, FiniteSets, TLC

VARIABLES
  fs,         \* the filesystem: path -> [kind, content]
  api,        \* the API's answers for the week under study
  log,        \* the calls made so far: [op, args, status, before, ...]
  pc,         \* the entry point's position
  year_span,  \* the entry point's year range
  week_span   \* the entry point's week range

vars == <<fs, api, log, pc, year_span, week_span>>

(***************************************************************************)
(* Sequences and names                                                     *)
(***************************************************************************)
Front(s) == SubSeq(s, 1, Len(s) - 1)

Last(s) == s[Len(s)]

IsPrefix(p, q) == Len(p) <= Len(q) /\ SubSeq(q, 1, Len(p)) = p

EndsWith(s, suf) ==
  Len(s) >= Len(suf) /\ SubSeq(s, Len(s) - Len(suf) + 1, Len(s)) = suf

\* Python's comparison of two strings (of two Path objects in one directory):
\* by the first differing character, a proper prefix first.
RECURSIVE LexLess(_, _)
LexLess(a, b) ==
  IF a = <<>> THEN b # <<>>
  ELSE IF b = <<>> THEN FALSE
  ELSE IF Head(a) # Head(b) THEN Head(a) < Head(b)
  ELSE LexLess(Tail(a), Tail(b))

\* str(n) of a natural number, as ASCII codes.
RECURSIVE Digits(_)
Digits(n) == IF n < 10 THEN <<48 + n>> ELSE Digits(n \div 10) \o <<48 + (n % 10)>>

RECURSIVE Concat(_)
Concat(ss) == IF ss = <<>> THEN <<>> ELSE Head(ss) \o Concat(Tail(ss))

SeqsUpTo(S, n) == UNION {[1..k -> S] : k \in 0..n}

(***************************************************************************)
(* The filesystem, as pathlib sees it                                      *)
(***************************************************************************)
Dir == [kind |-> "dir", content |-> <<>>]

File(rows) == [kind |-> "file", content |-> rows]

\* A symbolic link to a regular file, and a symbolic link to nothing.
\* (Symbolic links to directories are outside the model.)
Link == [kind |-> "link", content |-> <<>>]

Dangling == [kind |-> "dangling", content |-> <<>>]

Ok(f) == [fs |-> f, status |-> "ok"]

Raise(f, e) == [fs |-> f, status |-> e]

\* Path.exists(): follows symbolic links; the working directory exists.
exists(f, p) == p = <<>> \/ (p \in DOMAIN f /\ f[p].kind # "dangling")

is_dir(f, p) == p = <<>> \/ (p \in DOMAIN f /\ f[p].kind = "dir")

is_file(f, p) == p \in DOMAIN f /\ f[p].kind \in {"file", "link"}

is_symlink(f, p) == p \in DOMAIN f /\ f[p].kind \in {"link", "dangling"}

Children(f, p) == {q \in DOMAIN f : Len(q) = Len(p) + 1 /\ IsPrefix(p, q)}

Remove(f, S) == [q \in DOMAIN f \ S |-> f[q]]

Put(f, p, node) == [q \in DOMAIN f \cup {p} |-> IF q = p THEN node ELSE f[q]]

\* Every entry lies in a directory.
WellFormed(f) == \A p \in DOMAIN f : p # <<>> /\ is_dir(f, Front(p))

\* os.mkdir(p): the errno of the system call.
OsMkdir(f, p) ==
  IF p = <<>> \/ p \in DOMAIN f THEN "EEXIST"
  ELSE IF is_dir(f, Front(p)) THEN "OK"
  ELSE IF \E k \in 1..(Len(p) - 1) : is_file(f, SubSeq(p, 1, k)) THEN "ENOTDIR"
  ELSE "ENOENT"

\* Path.mkdir(parents, exist_ok).
RECURSIVE Mkdir(_, _, _, _)
Mkdir(f, p, parents, exist_ok) ==
  LET e == OsMkdir(f, p) IN
  IF e = "OK" THEN Ok(Put(f, p, Dir))
  ELSE IF e = "ENOENT" THEN
    IF ~parents \/ p = <<>> THEN Raise(f, "FileNotFoundError")
    ELSE LET r == Mkdir(f, Front(p), TRUE, TRUE) IN
         IF r.status # "ok" THEN r ELSE Mkdir(r.fs, p, FALSE, exist_ok)
  ELSE IF ~exist_ok \/ ~is_dir(f, p)
       THEN Raise(f, IF e = "EEXIST" THEN "FileExistsError" ELSE "NotADirectoryError")
       ELSE Ok(f)

\* Path.rmdir().
Rmdir(f, p) ==
  IF p \notin DOMAIN f THEN Raise(f, "FileNotFoundError")
  ELSE IF f[p].kind # "dir" THEN Raise(f, "NotADirectoryError")
  ELSE IF Children(f, p) # {} THEN Raise(f, "OSError")
  ELSE Ok(Remove(f, {p}))

(***************************************************************************)
(* Directory utilities                                                     *)
(***************************************************************************)
ValidateDirNoParents(f, folder) ==
  IF ~exists(f, folder) THEN Mkdir(f, folder, FALSE, TRUE)
  ELSE IF ~is_dir(f, folder) THEN Raise(f, "NotADirectoryError")
  ELSE Ok(f)

validate_dir(f, folder) ==
  IF ~exists(f, folder) THEN Mkdir(f, folder, TRUE, TRUE)
  ELSE IF ~is_dir(f, folder) THEN Raise(f, "NotADirectoryError")
  ELSE Ok(f)

\* purge_folder: the set of outcomes, one per order in which rglob('*') can
\* yield the entries.  rglob yields a directory before what it contains, so
\* the entry visited next is always a child of `folder` that still exists:
\* the entries visited before are unlinked files, or directories that are
\* gone together with what they held.  PurgeLoop is the for loop from a
\* filesystem `f` on: either no directory is left among the children and
\* they are all unlinked, or some files and links U are unlinked and then
\* a directory d is visited.
RECURSIVE purge_folder(_, _), PurgeLoop(_, _)
PurgeLoop(f, folder) ==
  LET kids   == Children(f, folder)
      dirs   == {k \in kids : ~is_file(f, k) /\ ~is_symlink(f, k) /\ is_dir(f, k)}
      others == kids \ dirs
  IN  IF dirs = {} THEN {Rmdir(Remove(f, others), folder)}
      ELSE UNION {
             UNION {
               IF o.status # "ok" THEN {o}
               ELSE LET r == Rmdir(o.fs, d) IN
                    IF r.status # "ok" THEN {r} ELSE PurgeLoop(r.fs, folder)
               : o \in purge_folder(Remove(f, U), d) }
             : <<d, U>> \in dirs \X SUBSET others }

purge_folder(f, folder) ==
  IF ~exists(f, folder) THEN {Ok(f)} ELSE PurgeLoop(f, folder)


(***************************************************************************)
(* merge_csvs                                                              *)
(***************************************************************************)
Csv == <<46, 99, 115, 118>>  \* ".csv"

\* data_folder.glob('*.csv'): the entries of the directory whose name ends
\* in .csv; nothing when data_folder is no directory.
Glob(f, data_folder) ==
  IF is_dir(f, data_folder)
  THEN {q \in Children(f, data_folder) : EndsWith(Last(q), Csv)}
  ELSE {}

SortedShortestFirst(S) ==
  LET Before(a, b) ==
        Len(Last(a)) < Len(Last(b))
          \/ (Len(Last(a)) = Len(Last(b)) /\ LexLess(Last(a), Last(b)))
      pick[T \in SUBSET S] ==
        IF T = {} THEN <<>>
        ELSE LET m == CHOOSE x \in T : \A y \in T \ {x} : Before(x, y)
             IN  <<m>> \o pick[T \ {m}]
  IN  pick[S]

\* sorted(paths of one directory): ascending by name.
sorted(S) ==
  LET pick[T \in SUBSET S] ==
        IF T = {} THEN <<>>
        ELSE LET m == CHOOSE x \in T : \A y \in T \ {x} : LexLess(Last(x), Last(y))
             IN  <<m>> \o pick[T \ {m}]
  IN  pick[S]

\* file.open() for reading, then csv.reader: the rows, or the error.
OpenRead(f, p) ==
  IF p \notin DOMAIN f \/ f[p].kind = "dangling"
  THEN [status |-> "FileNotFoundError", rows |-> <<>>]
  ELSE IF f[p].kind = "dir" THEN [status |-> "IsADirectoryError", rows |-> <<>>]
  ELSE [status |-> "ok", rows |-> f[p].content]

\* path.open('w') and the rows written.  (The model never writes through a
\* symbolic link.)
WriteFile(f, p, rows) ==
  IF ~is_dir(f, Front(p)) THEN Raise(f, "FileNotFoundError")
  ELSE IF is_dir(f, p) THEN Raise(f, "IsADirectoryError")
  ELSE Ok(Put(f, p, File(rows)))

MergeRowsNoCheck(i, header, merged_rows, rows) ==
  IF rows = <<>> THEN [status |-> "StopIteration", header |-> header, rows |-> merged_rows]
  ELSE [status |-> "ok", header |-> IF i = 0 THEN Head(rows) ELSE header,
        rows |-> merged_rows \o Tail(rows)]

MergeRowsSkipFirst(i, header, merged_rows, rows) ==
  IF rows = <<>> THEN [status |-> "StopIteration", header |-> header, rows |-> merged_rows]
  ELSE IF i = 0 THEN [status |-> "ok", header |-> Head(rows), rows |-> merged_rows]
  ELSE IF Head(rows) # header
       THEN [status |-> "ValueError", header |-> header, rows |-> merged_rows]
       ELSE [status |-> "ok", header |-> header, rows |-> merged_rows \o Tail(rows)]

\* The loop body for the file at index i (from 0) whose rows are `rows`.
MergeRows(i, header, merged_rows, rows) ==
  IF rows = <<>> THEN [status |-> "StopIteration", header |-> header, rows |-> merged_rows]
  ELSE IF i = 0
       THEN [status |-> "ok", header |-> Head(rows), rows |-> merged_rows \o Tail(rows)]
  ELSE IF Head(rows) # header
       THEN [status |-> "ValueError", header |-> header, rows |-> merged_rows]
       ELSE [status |-> "ok", header |-> header, rows |-> merged_rows \o Tail(rows)]

RECURSIVE MergeLoop(_, _, _, _, _)
MergeLoop(f, csv_files, i, header, merged_rows) ==
  IF i >= Len(csv_files)
  THEN [status |-> "ok", header |-> header, rows |-> merged_rows]
  ELSE LET o == OpenRead(f, csv_files[i + 1]) IN
       IF o.status # "ok"
       THEN [status |-> o.status, header |-> header, rows |-> merged_rows]
       ELSE LET m == MergeRows(i, header, merged_rows, o.rows) IN
            IF m.status # "ok" THEN m
            ELSE MergeLoop(f, csv_files, i + 1, m.header, m.rows)

merge_csvs(f, data_folder, export_path) ==
  LET csv_files == sorted(Glob(f, data_folder)) IN
  IF csv_files = <<>> THEN Raise(f, "ValueError")
  ELSE LET m == MergeLoop(f, csv_files, 0, <<>>, <<>>) IN
       IF m.status # "ok" THEN Raise(f, m.status)
       ELSE WriteFile(f, export_path, <<m.header>> \o m.rows)

(***************************************************************************)
(* get_field_goal_data                                                     *)
(*                                                                         *)
(* An API answer is [ok, rows]: the HTTP status and the decoded list of    *)
(* records.  A cell of a data frame is a tagged value: <<"str", s>>,       *)
(* <<"int", digits>> or <<"nan">>.                                         *)
(***************************************************************************)
FieldGoalMade == "Field Goal Made"

FieldGoalAttempt == "Field Goal Attempt"

NaN == <<"nan">>

PyStr(s) == <<"str", s>>

PyInt(d) == <<"int", d>>

\* The strings of the model that int() accepts.
IntLiteral(s) == s \in {"0", "1", "2", "3", "4", "5", "6", "7", "8", "9"}

\* 'fg_data_yr{year}_wk{week}_wt{1 if retrieve_weather_data else 0}.csv'
ExportNameNoSeparators(year, week, retrieve_weather_data) ==
  <<102, 103, 95, 100, 97, 116, 97, 95, 121, 114>> \o Digits(year)
    \o Digits(week)
    \o <<IF retrieve_weather_data THEN 49 ELSE 48>> \o Csv

export_name(year, week, retrieve_weather_data) ==
  <<102, 103, 95, 100, 97, 116, 97, 95, 121, 114>> \o Digits(year)
    \o <<95, 119, 107>> \o Digits(week)
    \o <<95, 119, 116>> \o <<IF retrieve_weather_data THEN 49 ELSE 48>> \o Csv

\* pd.merge(how='left', on='playId') of the attempts with the (playId,
\* statType) pairs of the makes: every attempt, in order, once per matching
\* make (in the makes' order), or once with NaN when none matches.
RECURSIVE LeftJoin(_, _)
LeftJoin(attempts, makes) ==
  IF attempts = <<>> THEN <<>>
  ELSE LET a == Head(attempts)
           matches == SelectSeq(makes, LAMBDA m : m.playId = a.playId)
           joined ==
             IF matches = <<>>
             THEN <<[gameId |-> a.gameId, playId |-> a.playId,
                     statType |-> a.statType, made |-> NaN]>>
             ELSE [k \in 1..Len(matches) |->
                     [gameId |-> a.gameId, playId |-> a.playId,
                      statType |-> a.statType, made |-> PyStr(matches[k].statType)]]
       IN  joined \o LeftJoin(Tail(attempts), makes)

\* fillna(0), then replace({'Field Goal Made': 1, 0: 0}).
FillnaReplace(v) ==
  IF v = NaN THEN PyInt("0")
  ELSE IF v = PyStr(FieldGoalMade) THEN PyInt("1")
  ELSE v

\* astype(int) of one cell: int(v), which fails on a string that is no
\* integer literal.
CanInt(v) == v[1] = "int" \/ (v[1] = "str" /\ IntLiteral(v[2]))

AsInt(v) == PyInt(v[2])

\* The 0/1 indicator: the column after lines 151-156, or the ValueError.
MadeIndicator(field_goals) ==
  LET filled == [k \in 1..Len(field_goals) |->
                   [field_goals[k] EXCEPT !.made = FillnaReplace(@)]]
  IN  IF \E k \in 1..Len(filled) : ~CanInt(filled[k].made)
      THEN [status |-> "ValueError", rows |-> <<>>]
      ELSE [status |-> "ok",
            rows |-> [k \in 1..Len(filled) |-> [filled[k] EXCEPT !.made = AsInt(@)]]]

\* pd.merge(how='inner', left_on='gameId', right_on='id'), 'id' dropped:
\* every field goal, in order, once per weather record of its game.
RECURSIVE InnerJoin(_, _)
InnerJoin(field_goals, weather) ==
  IF field_goals = <<>> THEN <<>>
  ELSE LET g == Head(field_goals)
           matches == SelectSeq(weather, LAMBDA w : w.id = g.gameId)
       IN  [k \in 1..Len(matches) |-> <<g, matches[k]>>]
             \o InnerJoin(Tail(field_goals), weather)

FieldGoalHeader == <<"gameId", "playId", "statType", "made">>

FieldGoalRow(g) == <<g.gameId, g.playId, g.statType, g.made[2]>>

\* DataFrame.to_csv(index=False): the header and one row per record.
ToCsv(field_goals) ==
  <<FieldGoalHeader>> \o [k \in 1..Len(field_goals) |-> FieldGoalRow(field_goals[k])]

MergedToCsv(merged) ==
  <<FieldGoalHeader \o <<"temperature">>>>
    \o [k \in 1..Len(merged) |-> FieldGoalRow(merged[k][1]) \o <<merged[k][2].temperature>>]

\* The routine from the fetched answers `a` on.  An empty answer is a data
\* frame without columns: selecting or joining on a column of it raises
\* KeyError.
get_field_goal_data(f, a, year, week, export_folder_path, retrieve_weather_data) ==
  LET export_path ==
        Append(export_folder_path, export_name(year, week, retrieve_weather_data))
  IN
  IF ~is_dir(f, export_folder_path) THEN Raise(f, "AssertionError")
  ELSE IF ~a.makes.ok \/ ~a.attempts.ok THEN Raise(f, "RequestException")
  ELSE IF a.makes.rows = <<>> \/ a.attempts.rows = <<>> THEN Raise(f, "KeyError")
  ELSE LET field_goals == MadeIndicator(LeftJoin(a.attempts.rows, a.makes.rows)) IN
       IF field_goals.status # "ok" THEN Raise(f, field_goals.status)
       ELSE IF ~retrieve_weather_data THEN WriteFile(f, export_path, ToCsv(field_goals.rows))
       ELSE IF ~a.weather.ok THEN Raise(f, "RequestException")
       ELSE IF a.weather.rows = <<>> THEN Raise(f, "KeyError")
       ELSE WriteFile(f, export_path,
                      MergedToCsv(InnerJoin(field_goals.rows, a.weather.rows)))

(***************************************************************************)
(* get_field_goal_data_between and the entry point                         *)
(***************************************************************************)
\* range(start, stop, step) with step > 0: len() and the element at index i.
RangeLen(r) ==
  IF r.stop <= r.start THEN 0 ELSE (r.stop - r.start + r.step - 1) \div r.step

RangeAt(r, i) == r.start + i * r.step

RangeSeq(r) == [i \in 1..RangeLen(r) |-> RangeAt(r, i - 1)]

\* itertools.product(year_span, week_span): the pairs, the first range
\* outermost.
product(ys, ws) ==
  Concat([i \in 1..RangeLen(ys) |->
            [j \in 1..RangeLen(ws) |-> <<RangeSeq(ys)[i], RangeSeq(ws)[j]>>]])

\* total = len(year_span) * len(week_span)
Total(ys, ws) == RangeLen(ys) * RangeLen(ws)

DataFolder == <<<<100, 97, 116, 97, 115, 101, 116>>, <<100, 97, 116, 97>>>>  \* dataset/data

FgData == <<<<100, 97, 116, 97, 115, 101, 116>>,
            <<102, 103, 95, 100, 97, 116, 97>> \o Csv>>  \* dataset/fg_data.csv

AfterIgnoringErrors(status, next) == next

\* An exception is caught nowhere: the run ends where it is raised.
After(status, next) == IF status = "ok" THEN next ELSE "failed"

(***************************************************************************)
(* The directory utilities called on a small tree                          *)
(***************************************************************************)
MaxDepth == 2

NameA == <<97>>

NameB == <<98>>

\* The paths of the tree: a chain a, a/a, a/a/a, ... and, beside every
\* member of the chain, an entry b.
TreePaths ==
  {[i \in 1..k |-> NameA] : k \in 1..MaxDepth}
    \cup {[i \in 1..k |-> IF i = k THEN NameB ELSE NameA] : k \in 1..MaxDepth}

TreeNodes == {Dir, File(<<>>), Link, Dangling}

Trees ==
  {f \in UNION {[P -> TreeNodes] : P \in SUBSET TreePaths} : WellFormed(f)}

Call(op, args, r, before) ==
  [op |-> op, args |-> args, status |-> r.status, before |-> before]

\* The last two calls are kept.
Recent(l, c) == IF Len(l) < 2 THEN Append(l, c) ELSE <<l[2], c>>

InitDirs ==
  /\ fs \in Trees
  /\ api = <<>>
  /\ log = <<>>
  /\ pc = "dirs"
  /\ year_span = <<>>
  /\ week_span = <<>>

ValidateDir(p) ==
  LET r == validate_dir(fs, p) IN
  /\ fs' = r.fs
  /\ log' = Recent(log, Call("validate_dir", p, r, fs))
  /\ UNCHANGED <<api, pc, year_span, week_span>>

PurgeFolder(p) ==
  \E r \in purge_folder(fs, p) :
    /\ fs' = r.fs
    /\ log' = Recent(log, Call("purge_folder", p, r, fs))
    /\ UNCHANGED <<api, pc, year_span, week_span>>

NextDirs ==
  \/ \E p \in TreePaths : ValidateDir(p)
  \/ \E p \in TreePaths : PurgeFolder(p)

SpecDirs == InitDirs /\ [][NextDirs]_vars

\* What lies at or beneath p.
Beneath(f, p) == {q \in DOMAIN f : IsPrefix(p, q)}

LastCall == log[Len(log)]

Absent(f, p) == p \notin DOMAIN f

\* Nothing lies at p and no ancestor of p is anything but a directory.
Creatable(f, p) ==
  /\ Absent(f, p)
  /\ \A k \in 1..(Len(p) - 1) :
       SubSeq(p, 1, k) \in DOMAIN f => is_dir(f, SubSeq(p, 1, k))

TwoValidations ==
  /\ Len(log) = 2
  /\ log[1].op = "validate_dir"
  /\ log[2].op = "validate_dir"
  /\ log[1].args = log[2].args

\* C4 (as claimed): purge_folder on an existing directory ends without error
\* and leaves nothing at or beneath the path; on a nonexistent path it
\* changes nothing.
C4_PurgeRemovesEverything ==
  (log # <<>> /\ LastCall.op = "purge_folder") =>
    /\ is_dir(LastCall.before, LastCall.args) =>
         LastCall.status = "ok" /\ Beneath(fs, LastCall.args) = {}
    /\ Absent(LastCall.before, LastCall.args) => fs = LastCall.before

\* C8 (as claimed): validate_dir on a nonexistent path succeeds and leaves a
\* directory there; a second call in a row succeeds too and changes nothing;
\* on a path that exists and is not a directory it fails and changes nothing.
C8_ValidateDirIdempotent_AsClaimed ==
  /\ (log # <<>> /\ LastCall.op = "validate_dir") =>
       /\ Absent(LastCall.before, LastCall.args) =>
            LastCall.status = "ok" /\ is_dir(fs, LastCall.args)
       /\ (~Absent(LastCall.before, LastCall.args)
             /\ ~is_dir(LastCall.before, LastCall.args)) =>
            LastCall.status # "ok" /\ fs = LastCall.before
  /\ (TwoValidations /\ Absent(log[1].before, log[1].args)) =>
       /\ log[1].status = "ok"
       /\ log[2].status = "ok"
       /\ fs = log[2].before
       /\ is_dir(fs, log[2].args)

\* C8 (amended): the same, for a nonexistent path that can be created: no
\* ancestor of it is a file or a symbolic link.
C8_ValidateDirIdempotent ==
  /\ (log # <<>> /\ LastCall.op = "validate_dir") =>
       /\ Creatable(LastCall.before, LastCall.args) =>
            LastCall.status = "ok" /\ is_dir(fs, LastCall.args)
       /\ (~Absent(LastCall.before, LastCall.args)
             /\ ~is_dir(LastCall.before, LastCall.args)) =>
            LastCall.status # "ok" /\ fs = LastCall.before
  /\ (TwoValidations /\ Creatable(log[1].before, log[1].args)) =>
       /\ log[1].status = "ok"
       /\ log[2].status = "ok"
       /\ fs = log[2].before
       /\ is_dir(fs, log[2].args)

\* Two calls in a row on a path whose parent did not exist either.
C8_Witness ==
  /\ TwoValidations
  /\ Creatable(log[1].before, log[1].args)
  /\ Len(log[1].args) >= 2
  /\ Absent(log[1].before, Front(log[1].args))
  /\ log[2].status = "ok"
  /\ is_dir(fs, log[2].args)


(***************************************************************************)
(* merge_csvs called on directories of small files                         *)
(***************************************************************************)
MaxCsvRows == 2

CsvNames == {<<49>> \o Csv, <<49, 48>> \o Csv, <<50>> \o Csv}  \* 1.csv 10.csv 2.csv

StageNames == {<<48>> \o Csv, <<57>> \o Csv}  \* 0.csv 9.csv

TxtName == <<120, 46, 116, 120, 116>>  \* x.txt

DirAll == <<<<97, 108, 108>>>>  \* all/

DirPart == <<<<112, 97, 114, 116>>>>  \* part/

DirRest == <<<<114, 101, 115, 116>>>>  \* rest/

OutAll == <<<<111, 117, 116, 49>>>>  \* out1

OutStaged == <<<<111, 117, 116, 50>>>>  \* out2

Headers == {<<"a", "b">>, <<"a", "c">>}

RowValues == {<<"1", "2">>, <<"3", "4">>}

\* An empty file, or a header and up to MaxCsvRows rows.
Contents ==
  {<<>>} \cup {<<h>> \o rs : h \in Headers, rs \in SeqsUpTo(RowValues, MaxCsvRows)}

\* A directory at d holding the files of F (name -> content) and x.txt.
Folder(d, F) ==
  [q \in {d} \cup {Append(d, n) : n \in DOMAIN F} \cup {Append(d, TxtName)} |->
     IF q = d THEN Dir
     ELSE IF Last(q) = TxtName THEN File(<<<<"note">>>>)
     ELSE File(F[Last(q)])]

Restrict(F, S) == [n \in DOMAIN F \cap S |-> F[n]]

PartNames == {<<49>> \o Csv, <<49, 48>> \o Csv}  \* 1.csv 10.csv

\* all/ holds the files F; part/ holds those of them named in PartNames
\* and rest/ the others.
InitMerge ==
  /\ \E N \in SUBSET CsvNames : \E F \in [N -> Contents] :
       fs = Folder(DirAll, F) @@ Folder(DirPart, Restrict(F, PartNames))
              @@ Folder(DirRest, Restrict(F, N \ PartNames))
  /\ api = <<>>
  /\ log = <<>>
  /\ pc = "merge"
  /\ year_span = <<>>
  /\ week_span = <<>>

\* One consolidation of each directory: all/, then part/ (into rest/),
\* then rest/.
MergeCsvs(data_folder, export_path) ==
  LET r == merge_csvs(fs, data_folder, export_path) IN
  /\ Len(log) < 3
  /\ data_folder = <<DirAll, DirPart, DirRest>>[Len(log) + 1]
  /\ fs' = r.fs
  /\ log' = Append(log, Call("merge_csvs", <<data_folder, export_path>>, r, fs))
  /\ UNCHANGED <<api, pc, year_span, week_span>>

NextMerge ==
  \/ MergeCsvs(DirAll, OutAll)
  \/ \E m \in StageNames : MergeCsvs(DirPart, Append(DirRest, m))
  \/ MergeCsvs(DirRest, OutStaged)

SpecMerge == InitMerge /\ [][NextMerge]_vars

\* The header of a file: its first row, if it has one.
HeaderOf(f, q) ==
  IF is_file(f, q) /\ f[q].content # <<>> THEN <<f[q].content[1]>> ELSE <<>>

\* The number of data rows of a file.
DataRows(f, q) == IF f[q].content = <<>> THEN 0 ELSE Len(f[q].content) - 1

RECURSIVE SumDataRows(_, _)
SumDataRows(f, S) ==
  IF S = {} THEN 0
  ELSE LET q == CHOOSE x \in S : TRUE IN DataRows(f, q) + SumDataRows(f, S \ {q})

FirstCsv(f, d) ==
  CHOOSE q \in Glob(f, d) : \A y \in Glob(f, d) \ {q} : LexLess(Last(q), Last(y))

Merges == {i \in 1..Len(log) : log[i].op = "merge_csvs"}

\* C5: merge_csvs fails when the directory holds no *.csv file and when a
\* file after the first (by sorted name) has another header than the first;
\* so it succeeds only when all files share the first file's header.
C5_MergeFails ==
  \A i \in Merges :
    LET b   == log[i].before
        d   == log[i].args[1]
        all == Glob(b, d)
    IN  IF all = {} THEN log[i].status = "ValueError"
        ELSE LET first == HeaderOf(b, FirstCsv(b, d)) IN
             /\ (\E q \in all : HeaderOf(b, q) # first) => log[i].status # "ok"
             /\ log[i].status = "ok" => \A q \in all : HeaderOf(b, q) = first

\* Three files, the first two with the same header and the third with
\* another: the consolidation fails with the header mismatch.
C5_Witness ==
  \E i \in Merges :
    LET b == log[i].before
        d == log[i].args[1]
    IN  /\ Cardinality(Glob(b, d)) = 3
        /\ log[i].status = "ValueError"
        /\ \E q \in Glob(b, d) :
             /\ \A y \in Glob(b, d) \ {q} :
                  /\ LexLess(Last(y), Last(q))
                  /\ HeaderOf(b, y) = HeaderOf(b, FirstCsv(b, d))
                  /\ HeaderOf(b, y) # <<>>
             /\ HeaderOf(b, q) # HeaderOf(b, FirstCsv(b, d))
             /\ HeaderOf(b, q) # <<>>

\* C6: after a successful merge_csvs the destination holds the shared header
\* once, then the data rows of every file: those of a file follow those of
\* all files with a smaller name, in the file's own order, and nothing else.
C6_MergedContent ==
  \A i \in Merges :
    log[i].status = "ok" =>
      LET b    == log[i].before
          d    == log[i].args[1]
          dest == fs[log[i].args[2]].content
      IN  /\ Len(dest) = 1 + SumDataRows(b, Glob(b, d))
          /\ \A q \in Glob(b, d) :
               LET off == 1 + SumDataRows(b, {y \in Glob(b, d) : LexLess(Last(y), Last(q))})
               IN  /\ dest[1] = b[q].content[1]
                   /\ \A k \in 1..DataRows(b, q) : dest[off + k] = b[q].content[k + 1]

\* Three files consolidated, 10.csv before 2.csv, one of them with two
\* different rows.
C6_Witness ==
  \E i \in Merges :
    LET b == log[i].before
        d == log[i].args[1]
    IN  /\ log[i].status = "ok"
        /\ Cardinality(Glob(b, d)) = 3
        /\ \A q \in Glob(b, d) : DataRows(b, q) >= 1
        /\ \E q \in Glob(b, d) : DataRows(b, q) = 2 /\ b[q].content[2] # b[q].content[3]
        /\ b[Append(d, <<49, 48>> \o Csv)].content[2] # b[Append(d, <<50>> \o Csv)].content[2]

Count(rows, x) == Cardinality({k \in 1..Len(rows) : rows[k] = x})

\* part/ was consolidated into rest/, then rest/, and all/ in one call.
Staged ==
  /\ \E i \in Merges : log[i].args[1] = DirAll /\ log[i].status = "ok"
  /\ \E i, j \in Merges :
       /\ i < j
       /\ log[i].args[1] = DirPart /\ log[i].status = "ok"
       /\ log[j].args[1] = DirRest /\ log[j].status = "ok"

\* C7: for three files with the same header, consolidating two of them and
\* then the result with the third gives the header and the multiset of data
\* rows that consolidating the three in one call gives.
C7_StagedMerge ==
  (Staged /\ Cardinality(Glob(fs, DirAll)) = 3) =>
    LET one == fs[OutAll].content
        two == fs[OutStaged].content
    IN  /\ one[1] = two[1]
        /\ Len(one) = Len(two)
        /\ \A x \in RowValues : Count(Tail(one), x) = Count(Tail(two), x)

\* The staged consolidation of three files that all hold rows.
C7_Witness ==
  /\ Staged
  /\ Cardinality(Glob(fs, DirAll)) = 3
  /\ \A q \in Glob(fs, DirAll) : DataRows(fs, q) >= 1
  /\ \E x, y \in RowValues :
       x # y /\ Count(fs[OutAll].content, x) >= 1 /\ Count(fs[OutAll].content, y) >= 1


(***************************************************************************)
(* get_field_goal_data called for one week, with and without weather       *)
(***************************************************************************)
MaxEvents == 2

DataDir == <<<<100, 97, 116, 97>>>>  \* data/

TheWeek == [year |-> 2022, week |-> 5]

PlayIds == {"p1", "p2"}

GameIds == {"g1", "g2"}

\* The label of a made field goal, another label and a label that is an
\* integer literal.
Labels == {FieldGoalMade, "Field Goal Missed", "2"}

AttemptEvents ==
  [gameId : GameIds, playId : PlayIds, statType : {FieldGoalAttempt}]

MadeEvents == [playId : PlayIds, statType : Labels]

WeatherRecords == [id : GameIds, temperature : {"50"}]

Answers(records) ==
  {[ok |-> FALSE, rows |-> <<>>]}
    \cup {[ok |-> TRUE, rows |-> rs] : rs \in SeqsUpTo(records, MaxEvents)}

InitWeekly ==
  /\ fs \in {<<>>, DataDir :> Dir}
  /\ api \in [makes : Answers(MadeEvents), attempts : Answers(AttemptEvents),
              weather : Answers(WeatherRecords)]
  /\ log = <<>>
  /\ pc = "weekly"
  /\ year_span = <<>>
  /\ week_span = <<>>

\* One call with each value of the weather flag.
GetFieldGoalData(retrieve_weather_data) ==
  LET r == get_field_goal_data(fs, api, TheWeek.year, TheWeek.week, DataDir,
                               retrieve_weather_data)
  IN  /\ \A i \in 1..Len(log) : log[i].args[4] # retrieve_weather_data
      /\ fs' = r.fs
      /\ log' = Append(log, Call("get_field_goal_data",
                                 <<TheWeek.year, TheWeek.week, DataDir,
                                   retrieve_weather_data>>, r, fs))
      /\ UNCHANGED <<api, pc, year_span, week_span>>

NextWeekly == \E flag \in BOOLEAN : GetFieldGoalData(flag)

SpecWeekly == InitWeekly /\ [][NextWeekly]_vars

Weeklies == {i \in 1..Len(log) : log[i].op = "get_field_goal_data"}

\* The file a call wrote: its rows without the header; nothing when the
\* call failed.
Written(i) ==
  IF log[i].status = "ok"
  THEN Tail(fs[Append(log[i].args[3],
                      export_name(log[i].args[1], log[i].args[2], log[i].args[4]))].content)
  ELSE <<>>

\* C1 (as claimed): every record written has made 0 or 1, and 1 exactly when
\* the attempt's playId is among the made events with the label 'Field Goal
\* Made'.
C1_MadeIndicator ==
  \A i \in Weeklies : \A k \in 1..Len(Written(i)) :
    LET row == Written(i)[k] IN
    /\ row[4] \in {"0", "1"}
    /\ row[4] = "1" <=>
         \E j \in 1..Len(api.makes.rows) :
           /\ api.makes.rows[j].playId = row[2]
           /\ api.makes.rows[j].statType = FieldGoalMade

\* C2 (as claimed): without weather, whatever the two answers hold, the
\* file has one row per attempt event, in the attempts' order.
C2_OneRecordPerAttempt ==
  \A i \in Weeklies :
    (~log[i].args[4] /\ is_dir(log[i].before, DataDir)
       /\ api.makes.ok /\ api.attempts.ok) =>
      /\ Len(Written(i)) = Len(api.attempts.rows)
      /\ \A k \in 1..Len(Written(i)) :
           /\ Written(i)[k][1] = api.attempts.rows[k].gameId
           /\ Written(i)[k][2] = api.attempts.rows[k].playId

\* C3 (as claimed): for the same answers the call with weather writes no
\* more rows than the call without.
C3_WeatherNeverAddsRows ==
  \A i, j \in Weeklies :
    (log[i].args[4] /\ ~log[j].args[4]) => Len(Written(i)) <= Len(Written(j))


(***************************************************************************)
(* The entry point, on small ranges (in place of the years 2021..2024 and  *)
(* the weeks 0..15 of lines 290-291)                                       *)
(***************************************************************************)
MaxSpanLen == 2

\* The ranges the entry point is run with: up to MaxSpanLen years (weeks),
\* from 0 or 1 on, one or ten apart.
Spans ==
  {[start |-> a, stop |-> a + n * s, step |-> s] :
     a \in {0, 1}, s \in {1, 10}, n \in 0..MaxSpanLen}

\* What the API answers in one iteration: field goals with their weather,
\* an HTTP error, or a week without attempts.
MainAnswers ==
  LET attempts == <<[gameId |-> "g1", playId |-> "p1", statType |-> FieldGoalAttempt],
                    [gameId |-> "g2", playId |-> "p2", statType |-> FieldGoalAttempt]>>
      makes    == <<[playId |-> "p1", statType |-> FieldGoalMade]>>
      weather  == <<[id |-> "g1", temperature |-> "50"],
                    [id |-> "g2", temperature |-> "50"]>>
      some(rs) == [ok |-> TRUE, rows |-> rs]
      none     == [ok |-> FALSE, rows |-> <<>>]
  IN  { [makes |-> some(makes), attempts |-> some(attempts), weather |-> some(weather)],
        [makes |-> none, attempts |-> none, weather |-> none],
        [makes |-> some(makes), attempts |-> some(<<>>), weather |-> some(weather)] }

Dataset == <<<<100, 97, 116, 97, 115, 101, 116>>>>  \* dataset/

\* The disk before the run: nothing; an empty dataset/data; a file in the
\* place of dataset/data; a dataset/data that holds old.csv (another
\* header); one that holds a directory tmp.
MainDisks ==
  { <<>>,
    Dataset :> Dir @@ DataFolder :> Dir,
    Dataset :> Dir @@ DataFolder :> File(<<>>),
    Dataset :> Dir @@ DataFolder :> Dir
      @@ Append(DataFolder, <<111, 108, 100>> \o Csv) :> File(<<<<"x">>>>),
    Dataset :> Dir @@ DataFolder :> Dir @@ Append(DataFolder, <<116, 109, 112>>) :> Dir }

MainCall(op, args, status) == [op |-> op, args |-> args, status |-> status]

InitMain ==
  /\ fs \in MainDisks
  /\ api = <<>>
  /\ log = <<>>
  /\ pc = "validate"
  /\ year_span \in Spans
  /\ week_span \in Spans

\* The iterations made so far.
Iterations == Cardinality(Weeklies)

\* line 287
MainValidate ==
  LET r == validate_dir(fs, DataFolder) IN
  /\ pc = "validate"
  /\ fs' = r.fs
  /\ log' = Append(log, MainCall("validate_dir", DataFolder, r.status))
  /\ pc' = After(r.status, "between")
  /\ UNCHANGED <<api, year_span, week_span>>

\* lines 213-216: one iteration of the loop, the API answering a.
BetweenIterate ==
  /\ pc = "between"
  /\ Iterations < Len(product(year_span, week_span))
  /\ \E a \in MainAnswers :
       LET yw == product(year_span, week_span)[Iterations + 1]
           r  == get_field_goal_data(fs, a, yw[1], yw[2], DataFolder, TRUE)
       IN  /\ fs' = r.fs
           /\ log' = Append(log, MainCall("get_field_goal_data",
                                          <<yw[1], yw[2], DataFolder, TRUE>>, r.status))
           /\ pc' = After(r.status, "between")
  /\ UNCHANGED <<api, year_span, week_span>>

\* line 217: the loop is over, the total is printed.
BetweenFinish ==
  /\ pc = "between"
  /\ Iterations = Len(product(year_span, week_span))
  /\ log' = Append(log, MainCall("print", Total(year_span, week_span), "ok"))
  /\ pc' = "merge"
  /\ UNCHANGED <<fs, api, year_span, week_span>>

\* line 295
MainMerge ==
  LET r == merge_csvs(fs, DataFolder, FgData) IN
  /\ pc = "merge"
  /\ fs' = r.fs
  /\ log' = Append(log, MainCall("merge_csvs", <<DataFolder, FgData>>, r.status))
  /\ pc' = After(r.status, "purge")
  /\ UNCHANGED <<api, year_span, week_span>>

\* line 297
MainPurge ==
  /\ pc = "purge"
  /\ \E r \in purge_folder(fs, DataFolder) :
       /\ fs' = r.fs
       /\ log' = Append(log, MainCall("purge_folder", DataFolder, r.status))
       /\ pc' = After(r.status, "done")
  /\ UNCHANGED <<api, year_span, week_span>>

NextMain ==
  \/ MainValidate
  \/ BetweenIterate
  \/ BetweenFinish
  \/ MainMerge
  \/ MainPurge

SpecMain == InitMain /\ [][NextMain]_vars

\* The place of a call in the run: validation, the iterations, the end
\* of the loop, consolidation, purge.
Stage(op) ==
  CASE op = "validate_dir" -> 1
    [] op = "get_field_goal_data" -> 2
    [] op = "print" -> 3
    [] op = "merge_csvs" -> 4
    [] op = "purge_folder" -> 5

\* The weekly file of the call log[i].
WeeklyPath(i) ==
  Append(log[i].args[3], export_name(log[i].args[1], log[i].args[2], log[i].args[4]))

Purged == \E i \in 1..Len(log) : log[i].op = "purge_folder"

\* C9: the calls of a run are made in the order validation, iterations,
\* consolidation, purge; consolidation follows all the iterations; a call
\* that fails is the last of the run; the files of the iterations made are
\* on disk as long as the purge has not run; the purge follows a successful
\* consolidation.
C9_RunOrder ==
  /\ \A i, j \in 1..Len(log) : i < j => Stage(log[i].op) < Stage(log[j].op)
                                          \/ (Stage(log[i].op) = 2 /\ Stage(log[j].op) = 2)
  /\ log # <<>> => log[1].op = "validate_dir"
  /\ \A i \in 1..Len(log) :
       /\ log[i].status # "ok" => i = Len(log) /\ pc = "failed"
       /\ log[i].op = "merge_csvs" =>
            Iterations = RangeLen(year_span) * RangeLen(week_span)
       /\ log[i].op = "purge_folder" =>
            \E j \in 1..(i - 1) : log[j].op = "merge_csvs" /\ log[j].status = "ok"
  /\ pc = "failed" => log # <<>> /\ LastCall.status # "ok"
  /\ ~Purged => \A i \in Weeklies : log[i].status = "ok" => is_file(fs, WeeklyPath(i))

\* An iteration failed after two others: the run is over, the two files are
\* on disk.
C9_Witness ==
  /\ pc = "failed"
  /\ LastCall.op = "get_field_goal_data"
  /\ Iterations = 3
  /\ \A i \in Weeklies : i < Len(log) => is_file(fs, WeeklyPath(i))

\* The (year, week) of the k-th iteration (from 1): the week changes
\* fastest.
Loop(k) ==
  <<RangeAt(year_span, (k - 1) \div RangeLen(week_span)),
    RangeAt(week_span, (k - 1) % RangeLen(week_span))>>

Printed == \E i \in 1..Len(log) : log[i].op = "print"

\* C10: the iterations follow the validation in the log, the k-th is made
\* for the k-th pair, years outermost, with weather; the names of the files of distinct (year, week, flag) are
\* distinct; and when the loop is over every pair has had its one call, the
\* files written are as many as the pairs, which is the total printed.
C10_OneFilePerPair ==
  /\ Weeklies = 2..(Iterations + 1)
  /\ \A k \in 1..Iterations :
       log[k + 1].args = <<Loop(k)[1], Loop(k)[2], DataFolder, TRUE>>
  /\ \A y1, y2 \in {RangeAt(year_span, i) : i \in 0..(RangeLen(year_span) - 1)} :
       \A w1, w2 \in {RangeAt(week_span, i) : i \in 0..(RangeLen(week_span) - 1)} :
         \A f1, f2 \in BOOLEAN :
           export_name(y1, w1, f1) = export_name(y2, w2, f2)
             => <<y1, w1, f1>> = <<y2, w2, f2>>
  /\ \A p \in 1..Len(log) :
       log[p].op = "print" =>
         /\ log[p].args = RangeLen(year_span) * RangeLen(week_span)
         /\ log[p].args = Cardinality({WeeklyPath(i) : i \in Weeklies})
         /\ \A y \in {RangeAt(year_span, i) : i \in 0..(RangeLen(year_span) - 1)} :
              \A w \in {RangeAt(week_span, i) : i \in 0..(RangeLen(week_span) - 1)} :
                Cardinality({i \in Weeklies : log[i].args[1] = y /\ log[i].args[2] = w}) = 1
         /\ ~Purged => Cardinality({q \in Glob(fs, DataFolder) :
                                      \E i \in Weeklies : q = WeeklyPath(i)})
                         = log[p].args

\* The loop is over for the years 1, 11 and the weeks 0, 10.
C10_Witness ==
  /\ Printed
  /\ RangeSeq(year_span) = <<1, 11>>
  /\ RangeSeq(week_span) = <<0, 10>>
  /\ Iterations = 4

=============================================================================
